---- MODULE Spec2Model ----
(***************************************************************************)
(* Grid-based simulation kernel of leomane/profile:                        *)
(*   - the pheromone field engine  (src/ants/pheromone.ts)                 *)
(*   - the spatial hash index      (src/boids/spatial-hash.ts)             *)
(*                                                                         *)
(* Numbers.  A cell value, a rate or an amount is an exact rational        *)
(* <<n, d>> in lowest terms with d > 0.  Every input of the model is a     *)
(* small integer or a dyadic rate (0, 1/2, 1), and every run is bounded by *)
(* MaxOps operations, so every intermediate value is a dyadic rational     *)
(* whose numerator stays far below 2^24: on these inputs the float64       *)
(* arithmetic of the code and the float32 store into the Float32Array are  *)
(* exact, and the rational arithmetic below computes what the code         *)
(* computes.  Rounding outside these inputs is not modelled.               *)
(*                                                                         *)
(* Arrays.  A Float32Array is a sequence of cells; JavaScript index i is   *)
(* position i + 1.  Arrays are objects: the heap holds them by slot, and   *)
(* a field argument or a return value is a slot (a reference).             *)
(***************************************************************************)
EXTENDS Integers, Sequences, FiniteSets, TLC

VARIABLES
    cols, rows,   \* grid dimensions of the field, fixed at creation
    heap,         \* slot -> array contents (<<>> when the slot is free)
    cur,          \* slot of the current field (the latest returned array)
    old,          \* slot of the previous field (the last step's input), 0 if none
    nops,         \* number of calls made on the field since the initial state
    log,          \* history: per cell of cur the amounts deposited since cur was
                  \* allocated; the maxPheromone values used, whether a negative amount
                  \* was deposited, the number of steps so far and whether a step
                  \* was given a rate outside [0, 1]
    last,         \* the last call: its name, arguments, the heap before it, its result
    pos,          \* boid -> position <<x, y>>
    boids,        \* the list of boids handed to buildSpatialHash
    grid,         \* the spatial grid: insertion-ordered entries [key, cell]
    gridSize,     \* the cellSize of the index
    query         \* the last call on the index or the catalog and what it returned

fieldVars == <<cols, rows, heap, cur, old, nops, log, last>>
hashVars == <<pos, boids, grid, gridSize, query>>
vars == <<cols, rows, heap, cur, old, nops, log, last, pos, boids, grid, gridSize, query>>

----------------------------------------------------------------------------
(* Bounds *)

MaxOps == 2         \* calls per run on a field (deposit, diffuse, evaporate, read)
                    \* and queries per run on an index of SpecAlias
MaxAmount == 2      \* the largest deposit amount
FieldMax == 3       \* the positive maxPheromone argument of the deposits
NumBoids == 3       \* boids 1..NumBoids

Dims == 1..4                                  \* cols and rows of the fields of Spec
DepositDims == 1..2                           \* cols and rows of the fields of SpecDeposit
Amounts == {-1, 0, 1, MaxAmount}              \* deposit amounts of SpecDeposit
ImpulseAmounts == {-1, MaxAmount}             \* deposit amounts of Spec
MaxLevels == {-1, FieldMax}                   \* maxPheromone arguments of SpecDeposit
EvaporationRates == {<<0, 1>>, <<1, 2>>, <<1, 1>>}
DiffusionRates == EvaporationRates \cup {<<3, 2>>}   \* 3/2 lies outside [0,1]
Slots == {1, 2}

----------------------------------------------------------------------------
(* Exact rational arithmetic *)

Abs(n) == IF n < 0 THEN -n ELSE n

RECURSIVE GCD(_, _)
GCD(a, b) == IF b = 0 THEN a ELSE GCD(b, a % b)

Norm(n, d) == LET g == GCD(Abs(n), d) IN <<n \div g, d \div g>>

Num(n) == <<n, 1>>
Zero == <<0, 1>>
One == <<1, 1>>
Eight == <<8, 1>>

Add(p, q) == Norm(p[1] * q[2] + q[1] * p[2], p[2] * q[2])
Sub(p, q) == Norm(p[1] * q[2] - q[1] * p[2], p[2] * q[2])
Mul(p, q) == Norm(p[1] * q[1], p[2] * q[2])
DivBy(p, q) == Norm(p[1] * q[2], p[2] * q[1])      \* q > 0
Leq(p, q) == p[1] * q[2] <= q[1] * p[2]
Less(p, q) == p[1] * q[2] < q[1] * p[2]
MathMin(p, q) == IF Leq(p, q) THEN p ELSE q

----------------------------------------------------------------------------
(* Typed arrays *)

NewFloat32Array(n) == [i \in 1..n |-> Zero]

Load(a, i) == a[i + 1]

\* a store outside 0..length-1 of a typed array is ignored
Store(a, i, v) == IF i \in 0..(Len(a) - 1) THEN [a EXCEPT ![i + 1] = v] ELSE a

----------------------------------------------------------------------------
(* Pheromone field engine: the functions *)

EdgeCellCopy(field, i, evaporationRate) == Load(field, i)

\* the boundary write of the row pass and of the column pass: old value * evaporationRate
EdgeCell(field, i, evaporationRate) == Mul(Load(field, i), evaporationRate)

\* for (let x = 0; x < cols; x++): first row and last row
RECURSIVE RowPass(_, _, _, _, _, _)
RowPass(field, next, x, c, r, evaporationRate) ==
    IF x >= c THEN next
    ELSE LET n1 == Store(next, x, EdgeCell(field, x, evaporationRate))
             n2 == Store(n1, x + (r - 1) * c,
                         EdgeCell(field, x + (r - 1) * c, evaporationRate))
         IN RowPass(field, n2, x + 1, c, r, evaporationRate)

RECURSIVE ColPassLeftOnly(_, _, _, _, _, _)
ColPassLeftOnly(field, next, y, c, r, evaporationRate) ==
    IF y >= r THEN next
    ELSE ColPassLeftOnly(field, Store(next, y * c, EdgeCell(field, y * c, evaporationRate)),
                         y + 1, c, r, evaporationRate)

\* for (let y = 0; y < rows; y++): first column and last column
RECURSIVE ColPass(_, _, _, _, _, _)
ColPass(field, next, y, c, r, evaporationRate) ==
    IF y >= r THEN next
    ELSE LET n1 == Store(next, y * c, EdgeCell(field, y * c, evaporationRate))
             n2 == Store(n1, c - 1 + y * c,
                         EdgeCell(field, c - 1 + y * c, evaporationRate))
         IN ColPass(field, n2, y + 1, c, r, evaporationRate)

NeighborSumOrthogonal(src, idx, c) ==
    Add(Add(Add(
        Load(src, idx - 1),
        Load(src, idx + 1)),
        Load(src, idx - c)),
        Load(src, idx + c))

\* the sum of the 8 neighbours of idx, read from the array src
NeighborSum(src, idx, c) ==
    Add(Add(Add(Add(Add(Add(Add(
        Load(src, idx - 1),
        Load(src, idx + 1)),
        Load(src, idx - c)),
        Load(src, idx + c)),
        Load(src, idx - 1 - c)),
        Load(src, idx + 1 - c)),
        Load(src, idx - 1 + c)),
        Load(src, idx + 1 + c))

InteriorCellInPlace(field, next, idx, c, diffusionRate, evaporationRate) ==
    LET sum == NeighborSum(next, idx, c)
        center == Load(field, idx)
        diffused == Add(Mul(center, Sub(One, diffusionRate)),
                        Mul(DivBy(sum, Eight), diffusionRate))
    IN Mul(diffused, evaporationRate)

InteriorCellKeepsCenter(field, next, idx, c, diffusionRate, evaporationRate) ==
    LET sum == NeighborSum(field, idx, c)
        center == Load(field, idx)
        diffused == Add(center, Mul(DivBy(sum, Eight), diffusionRate))
    IN Mul(diffused, evaporationRate)

InteriorCellSignSlip(field, next, idx, c, diffusionRate, evaporationRate) ==
    LET sum == NeighborSum(field, idx, c)
        center == Load(field, idx)
        diffused == Add(Mul(center, Sub(diffusionRate, One)),
                        Mul(DivBy(sum, Eight), diffusionRate))
    IN Mul(diffused, evaporationRate)

InteriorCellFixedShare(field, next, idx, c, diffusionRate, evaporationRate) ==
    LET sum == NeighborSum(field, idx, c)
        center == Load(field, idx)
        diffused == Add(Mul(center, Sub(One, diffusionRate)), DivBy(sum, Eight))
    IN Mul(diffused, evaporationRate)

InteriorCellEvaporatesCenterOnly(field, next, idx, c, diffusionRate, evaporationRate) ==
    LET sum == NeighborSum(field, idx, c)
        center == Load(field, idx)
    IN Add(Mul(Mul(center, Sub(One, diffusionRate)), evaporationRate),
           Mul(DivBy(sum, Eight), diffusionRate))

\* the value written to next[idx] for an interior cell; next is the output so far
InteriorCell(field, next, idx, c, diffusionRate, evaporationRate) ==
    LET sum == NeighborSum(field, idx, c)
        center == Load(field, idx)
        diffused == Add(Mul(center, Sub(One, diffusionRate)),
                        Mul(DivBy(sum, Eight), diffusionRate))
    IN Mul(diffused, evaporationRate)

\* for (let y = 1; y < rows - 1; y++) of one column x
RECURSIVE InteriorColumn(_, _, _, _, _, _, _, _)
InteriorColumn(field, next, x, y, c, r, diffusionRate, evaporationRate) ==
    IF y >= r - 1 THEN next
    ELSE InteriorColumn(field,
             Store(next, x + y * c,
                   InteriorCell(field, next, x + y * c, c, diffusionRate, evaporationRate)),
             x, y + 1, c, r, diffusionRate, evaporationRate)

\* for (let x = 1; x < cols - 1; x++)
RECURSIVE InteriorPass(_, _, _, _, _, _, _)
InteriorPass(field, next, x, c, r, diffusionRate, evaporationRate) ==
    IF x >= c - 1 THEN next
    ELSE InteriorPass(field,
             InteriorColumn(field, next, x, 1, c, r, diffusionRate, evaporationRate),
             x + 1, c, r, diffusionRate, evaporationRate)

\* the two boundary passes, in the order of the code
BoundaryPasses(field, next, c, r, evaporationRate) ==
    ColPass(field, RowPass(field, next, 0, c, r, evaporationRate), 0, c, r, evaporationRate)

\* the contents of the array diffusePheromones returns
diffusePheromones(field, c, r, diffusionRate, evaporationRate) ==
    InteriorPass(field,
        BoundaryPasses(field, NewFloat32Array(Len(field)), c, r, evaporationRate),
        1, c, r, diffusionRate, evaporationRate)

RECURSIVE EvaporateLoopTwice(_, _, _, _)
EvaporateLoopTwice(field, next, i, evaporationRate) ==
    IF i >= Len(field) THEN next
    ELSE EvaporateLoopTwice(field,
             Store(next, i, Mul(Mul(Load(field, i), evaporationRate), evaporationRate)),
             i + 1, evaporationRate)

\* for (let i = 0; i < field.length; i++) next[i] = field[i] * evaporationRate
RECURSIVE EvaporateLoop(_, _, _, _)
EvaporateLoop(field, next, i, evaporationRate) ==
    IF i >= Len(field) THEN next
    ELSE EvaporateLoop(field, Store(next, i, Mul(Load(field, i), evaporationRate)),
                       i + 1, evaporationRate)

evaporatePheromonesSkipsLast(field, evaporationRate) ==
    EvaporateLoop(SubSeq(field, 1, Len(field) - 1), NewFloat32Array(Len(field)), 0,
                  evaporationRate)

evaporatePheromones(field, evaporationRate) ==
    EvaporateLoop(field, NewFloat32Array(Len(field)), 0, evaporationRate)

OutOfBoundsOffByOne(c, r, x, y) == x < 0 \/ x > c \/ y < 0 \/ y > r

\* the bounds test shared by depositPheromone and getPheromoneAt
OutOfBounds(c, r, x, y) == x < 0 \/ x >= c \/ y < 0 \/ y >= r

DepositValueOverwrite(cell, amount, maxPheromone) == MathMin(amount, maxPheromone)

DepositValueNoClamp(cell, amount, maxPheromone) == Add(cell, amount)

DepositValueClampsAmount(cell, amount, maxPheromone) == Add(cell, MathMin(amount, maxPheromone))

\* the value depositPheromone stores at idx
DepositValue(cell, amount, maxPheromone) == MathMin(Add(cell, amount), maxPheromone)

depositPheromoneSpills(field, c, r, x, y, amount, maxPheromone) ==
    IF OutOfBounds(c, r, x, y) THEN field
    ELSE Store(Store(field, x + y * c,
                     DepositValue(Load(field, x + y * c), amount, maxPheromone)),
               x + y * c + 1, amount)

\* the array contents after depositPheromone (the array is written in place)
depositPheromone(field, c, r, x, y, amount, maxPheromone) ==
    IF OutOfBounds(c, r, x, y) THEN field
    ELSE Store(field, x + y * c, DepositValue(Load(field, x + y * c), amount, maxPheromone))

\* what depositPheromone returns
depositReturns(c, r, x, y) == ~OutOfBounds(c, r, x, y)

getPheromoneAtNoColumnCheck(field, c, r, x, y) ==
    IF x < 0 \/ y < 0 \/ y >= r \/ x + y * c >= c * r THEN Zero ELSE Load(field, x + y * c)

getPheromoneAt(field, c, r, x, y) ==
    IF OutOfBounds(c, r, x, y) THEN Zero ELSE Load(field, x + y * c)

RECURSIVE TotalLoop(_, _, _)
TotalLoop(field, i, total) ==
    IF i >= Len(field) THEN total ELSE TotalLoop(field, i + 1, Add(total, Load(field, i)))

getTotalPheromone(field) == TotalLoop(field, 0, Zero)

createPheromoneField(c, r) == NewFloat32Array(c * r)

\* { gx: Math.floor(worldX / gridSize), gy: Math.floor(worldY / gridSize) }
worldToGrid(worldX, worldY, size) ==
    [gx |-> worldX \div size, gy |-> worldY \div size]

----------------------------------------------------------------------------
(* Pheromone field engine: the calls a host makes *)

AllocInPlace(fieldSlot) == fieldSlot

\* const next = new Float32Array(field.length): a fresh array, never the argument
AllocSlot(fieldSlot) == 3 - fieldSlot

LiveSlots == {cur} \cup ({old} \ {0})

\* a rate within [0, 1]
InUnit(rate) == Leq(Zero, rate) /\ Leq(rate, One)

NoLog(n) ==
    [sum |-> [i \in 1..n |-> 0], cnt |-> [i \in 1..n |-> 0], maxs |-> {}, neg |-> FALSE,
     steps |-> 0, wild |-> FALSE]

\* the history after a deposit of amount at (x, y) into slot t that returned true
Logged(t, x, y, amount, maxPheromone) ==
    LET i == x + y * cols + 1 IN
    [sum  |-> IF t = cur THEN [log.sum EXCEPT ![i] = @ + amount] ELSE log.sum,
     cnt  |-> IF t = cur THEN [log.cnt EXCEPT ![i] = @ + 1] ELSE log.cnt,
     maxs |-> log.maxs \cup {maxPheromone},
     neg  |-> log.neg \/ amount < 0,
     steps |-> log.steps,
     wild |-> log.wild]

InitField ==
    /\ cols \in Dims
    /\ rows \in Dims
    /\ heap = [s \in Slots |-> IF s = 1 THEN createPheromoneField(cols, rows) ELSE <<>>]
    /\ cur = 1
    /\ old = 0
    /\ nops = 0
    /\ log = NoLog(cols * rows)
    /\ last = [op |-> "create"]

Deposit(t, x, y, amount, maxPheromone) ==
    /\ nops < MaxOps
    /\ t \in LiveSlots
    /\ heap' = [heap EXCEPT ![t] = depositPheromone(heap[t], cols, rows, x, y,
                                                    Num(amount), Num(maxPheromone))]
    /\ last' = [op |-> "deposit", field |-> t, x |-> x, y |-> y, amount |-> amount,
                maxPheromone |-> maxPheromone, pre |-> heap,
                ret |-> depositReturns(cols, rows, x, y)]
    /\ log' = IF depositReturns(cols, rows, x, y)
              THEN Logged(t, x, y, amount, maxPheromone) ELSE log
    /\ nops' = nops + 1
    /\ UNCHANGED <<cols, rows, cur, old>>

Diffuse(diffusionRate, evaporationRate) ==
    /\ nops < MaxOps
    /\ heap' = [heap EXCEPT ![AllocSlot(cur)] =
                    diffusePheromones(heap[cur], cols, rows, diffusionRate, evaporationRate)]
    /\ last' = [op |-> "diffuse", field |-> cur, diffusionRate |-> diffusionRate,
                evaporationRate |-> evaporationRate, pre |-> heap, ret |-> AllocSlot(cur)]
    /\ cur' = AllocSlot(cur)
    /\ old' = cur
    /\ log' = [NoLog(cols * rows) EXCEPT !.maxs = log.maxs, !.neg = log.neg,
                                           !.steps = log.steps + 1,
                                           !.wild = \/ log.wild
                                                    \/ ~InUnit(diffusionRate)
                                                    \/ ~InUnit(evaporationRate)]
    /\ nops' = nops + 1
    /\ UNCHANGED <<cols, rows>>

\* the last call was evaporatePheromones with this rate, and its result is the field
SameRateAgain(evaporationRate) ==
    last.op = "evaporate" /\ last.evaporationRate = evaporationRate /\ last.ret = cur

\* evaporatePheromones on the current field; last.run counts the successive calls with
\* one rate up to this one and last.origin is the field the first of them was given
Evaporate(evaporationRate) ==
    /\ nops < MaxOps
    /\ heap' = [heap EXCEPT ![AllocSlot(cur)] =
                    evaporatePheromones(heap[cur], evaporationRate)]
    /\ last' = [op |-> "evaporate", field |-> cur, evaporationRate |-> evaporationRate,
                pre |-> heap, ret |-> AllocSlot(cur),
                run |-> IF SameRateAgain(evaporationRate) THEN last.run + 1 ELSE 1,
                origin |-> IF SameRateAgain(evaporationRate) THEN last.origin ELSE heap[cur]]
    /\ cur' = AllocSlot(cur)
    /\ old' = cur
    /\ log' = [NoLog(cols * rows) EXCEPT !.maxs = log.maxs, !.neg = log.neg,
                                           !.steps = log.steps + 1,
                                           !.wild = log.wild \/ ~InUnit(evaporationRate)]
    /\ nops' = nops + 1
    /\ UNCHANGED <<cols, rows>>

ReadAt(t, x, y) ==
    /\ nops < MaxOps
    /\ t \in LiveSlots
    /\ last' = [op |-> "read", field |-> t, x |-> x, y |-> y, pre |-> heap,
                ret |-> getPheromoneAt(heap[t], cols, rows, x, y)]
    /\ nops' = nops + 1
    /\ UNCHANGED <<cols, rows, heap, cur, old, log>>

InitHashIdle ==
    /\ pos = <<>>
    /\ boids = <<>>
    /\ grid = <<>>
    /\ gridSize = 1
    /\ query = [op |-> "none"]

(* Spec: a field of cols x rows cells, both in Dims; deposits inside the grid build the
   inputs of the diffusion and evaporation steps, and write to the arrays the steps
   read and return. *)
Init == InitField /\ InitHashIdle

Next ==
    \/ \E t \in Slots, x \in 0..(cols - 1), y \in 0..(rows - 1), a \in ImpulseAmounts :
           Deposit(t, x, y, a, FieldMax) /\ UNCHANGED hashVars
    \/ \E d \in DiffusionRates, e \in EvaporationRates :
           Diffuse(d, e) /\ UNCHANGED hashVars
    \/ \E e \in EvaporationRates : Evaporate(e) /\ UNCHANGED hashVars

Spec == Init /\ [][Next]_vars

(* SpecDeposit: a field of cols x rows cells, both in DepositDims, made by
   createPheromoneField; deposits and reads at every coordinate from -1 to the
   dimension, with every amount and maxPheromone. *)
InitDeposit == Init /\ cols \in DepositDims /\ rows \in DepositDims

NextDeposit ==
    \/ \E t \in Slots, x \in (-1)..cols, y \in (-1)..rows, a \in Amounts, m \in MaxLevels :
           Deposit(t, x, y, a, m) /\ UNCHANGED hashVars
    \/ \E t \in Slots, x \in (-1)..cols, y \in (-1)..rows :
           ReadAt(t, x, y) /\ UNCHANGED hashVars

SpecDeposit == InitDeposit /\ [][NextDeposit]_vars

(* SpecImpulse: a field of cols x rows cells, both in ImpulseDims, so that a cell can
   have all its 8 neighbours in the interior; positive deposits into the current field
   and diffusion steps. *)
ImpulseDims == 3..5

InitImpulse ==
    /\ InitHashIdle
    /\ cols \in ImpulseDims
    /\ rows \in ImpulseDims
    /\ heap = [s \in Slots |-> IF s = 1 THEN createPheromoneField(cols, rows) ELSE <<>>]
    /\ cur = 1
    /\ old = 0
    /\ nops = 0
    /\ log = NoLog(cols * rows)
    /\ last = [op |-> "create"]

NextImpulse ==
    \/ \E x \in 0..(cols - 1), y \in 0..(rows - 1) :
           Deposit(cur, x, y, MaxAmount, FieldMax) /\ UNCHANGED hashVars
    \/ \E d \in DiffusionRates, e \in EvaporationRates :
           Diffuse(d, e) /\ UNCHANGED hashVars

SpecImpulse == InitImpulse /\ [][NextImpulse]_vars

(* SpecSaturated: a field of cols x rows cells, both in SaturatedDims, on which two
   deposits of MaxAmount under FieldMax have just saturated one cell; then deposits
   into the current field, diffusion steps and evaporation steps.  The calls are
   counted from this state on. *)
SaturatedDims == {1, 3}
SaturatedAmounts == {-1, 0, MaxAmount}

InitSaturated ==
    /\ InitHashIdle
    /\ cols \in SaturatedDims
    /\ rows \in SaturatedDims
    /\ \E x \in 0..(cols - 1), y \in 0..(rows - 1) :
           LET once == depositPheromone(createPheromoneField(cols, rows), cols, rows, x, y,
                                        Num(MaxAmount), Num(FieldMax))
               twice == depositPheromone(once, cols, rows, x, y, Num(MaxAmount), Num(FieldMax))
           IN /\ heap = [s \in Slots |-> IF s = 1 THEN twice ELSE <<>>]
              /\ log = [NoLog(cols * rows) EXCEPT
                            !.sum[x + y * cols + 1] = 2 * MaxAmount,
                            !.cnt[x + y * cols + 1] = 2,
                            !.maxs = {FieldMax}]
              /\ last = [op |-> "deposit", field |-> 1, x |-> x, y |-> y,
                         amount |-> MaxAmount, maxPheromone |-> FieldMax,
                         pre |-> [s \in Slots |-> IF s = 1 THEN once ELSE <<>>],
                         ret |-> TRUE]
    /\ cur = 1
    /\ old = 0
    /\ nops = 0

NextSaturated ==
    \/ \E x \in 0..(cols - 1), y \in 0..(rows - 1), a \in SaturatedAmounts :
           Deposit(cur, x, y, a, FieldMax) /\ UNCHANGED hashVars
    \/ \E d \in DiffusionRates, e \in EvaporationRates :
           Diffuse(d, e) /\ UNCHANGED hashVars
    \/ \E e \in EvaporationRates : Evaporate(e) /\ UNCHANGED hashVars

SpecSaturated == InitSaturated /\ [][NextSaturated]_vars

----------------------------------------------------------------------------
(* Spatial hash index: the functions.  A position is <<x, y>>, a boid is an identity
   (the grid holds references), and pos gives each boid's current position. *)

CellCoordTruncates(v, cellSize) == IF v < 0 THEN -((-v) \div cellSize) ELSE v \div cellSize

\* Math.floor(v / cellSize)
CellCoord(v, cellSize) == v \div cellSize

KeyDropsSign(cellX, cellY) == ToString(Abs(cellX)) \o "," \o ToString(Abs(cellY))

\* the template literal `${cellX},${cellY}`
Key(cellX, cellY) == ToString(cellX) \o "," \o ToString(cellY)

getCellKey(p, cellSize) == Key(CellCoord(p[1], cellSize), CellCoord(p[2], cellSize))

\* a Map<string, Boid[]>: its entries in insertion order
GridHas(g, key) == \E i \in 1..Len(g) : g[i].key = key
GridIndex(g, key) == CHOOSE i \in 1..Len(g) : g[i].key = key
GridGet(g, key) == g[GridIndex(g, key)].cell
GridSet(g, key, cell) ==
    IF GridHas(g, key) THEN [g EXCEPT ![GridIndex(g, key)].cell = cell]
    ELSE Append(g, [key |-> key, cell |-> cell])

RECURSIVE BuildLoopOverwrites(_, _, _, _, _)
BuildLoopOverwrites(list, i, positions, cellSize, g) ==
    IF i > Len(list) THEN g
    ELSE BuildLoopOverwrites(list, i + 1, positions, cellSize,
             GridSet(g, getCellKey(positions[list[i]], cellSize), <<list[i]>>))

\* for (const boid of boids)
RECURSIVE BuildLoop(_, _, _, _, _)
BuildLoop(list, i, positions, cellSize, g) ==
    IF i > Len(list) THEN g
    ELSE LET key == getCellKey(positions[list[i]], cellSize)
             g1 == IF ~GridHas(g, key) THEN GridSet(g, key, <<>>) ELSE g
             g2 == [g1 EXCEPT ![GridIndex(g1, key)].cell = Append(@, list[i])]
         IN BuildLoop(list, i + 1, positions, cellSize, g2)

buildSpatialHash(list, positions, cellSize) == BuildLoop(list, 1, positions, cellSize, <<>>)

RECURSIVE ScanDyIgnoresDx(_, _, _, _, _, _)
ScanDyIgnoresDx(cellX, cellY, dx, dy, g, neighbors) ==
    IF dy > 1 THEN neighbors
    ELSE LET key == Key(cellX, cellY + dy)
         IN ScanDyIgnoresDx(cellX, cellY, dx, dy + 1, g,
                   IF GridHas(g, key) THEN neighbors \o GridGet(g, key) ELSE neighbors)

\* for (let dy = -1; dy <= 1; dy++)
RECURSIVE ScanDy(_, _, _, _, _, _)
ScanDy(cellX, cellY, dx, dy, g, neighbors) ==
    IF dy > 1 THEN neighbors
    ELSE LET key == Key(cellX + dx, cellY + dy)
         IN ScanDy(cellX, cellY, dx, dy + 1, g,
                   IF GridHas(g, key) THEN neighbors \o GridGet(g, key) ELSE neighbors)

\* for (let dx = -1; dx <= 1; dx++)
RECURSIVE ScanDx(_, _, _, _, _)
ScanDx(cellX, cellY, dx, g, neighbors) ==
    IF dx > 1 THEN neighbors
    ELSE ScanDx(cellX, cellY, dx + 1, g, ScanDy(cellX, cellY, dx, -1, g, neighbors))

getNeighborsOwnCellOnly(p, g, cellSize) ==
    LET key == getCellKey(p, cellSize)
    IN IF GridHas(g, key) THEN GridGet(g, key) ELSE <<>>

getNeighborsSkipsLeft(p, g, cellSize) ==
    ScanDx(CellCoord(p[1], cellSize), CellCoord(p[2], cellSize), 0, g, <<>>)

getNeighbors(p, g, cellSize) ==
    ScanDx(CellCoord(p[1], cellSize), CellCoord(p[2], cellSize), -1, g, <<>>)

getCellCount(g) == Len(g)

RECURSIVE AllBoidsLoopHeads(_, _, _)
AllBoidsLoopHeads(g, i, acc) ==
    IF i > Len(g) THEN acc ELSE AllBoidsLoopHeads(g, i + 1, Append(acc, Head(g[i].cell)))

\* for (const cellBoids of grid.values())
RECURSIVE AllBoidsLoop(_, _, _)
AllBoidsLoop(g, i, acc) ==
    IF i > Len(g) THEN acc ELSE AllBoidsLoop(g, i + 1, acc \o g[i].cell)

getAllBoids(g) == AllBoidsLoop(g, 1, <<>>)

----------------------------------------------------------------------------
(* Spatial hash index: the calls a host makes each tick *)

Boids == 1..NumBoids
Coords == (-1)..1
Positions == Coords \X Coords
CellSizes == {1, 2}

\* the lists of distinct boids.  Boids are interchangeable and every assignment of
\* positions to them is explored, so a list names its boids in the order 1, 2, ...;
\* the boids it leaves out are not in the index
Lists == {[i \in 1..n |-> i] : n \in 0..NumBoids}

InitFieldIdle ==
    /\ cols = 1
    /\ rows = 1
    /\ heap = [s \in Slots |-> IF s = 1 THEN createPheromoneField(1, 1) ELSE <<>>]
    /\ cur = 1
    /\ old = 0
    /\ nops = 0
    /\ log = NoLog(1)
    /\ last = [op |-> "create"]

\* the boids start at the origin; the index of a list of them is built
InitHash ==
    /\ InitFieldIdle
    /\ pos = [b \in Boids |-> <<0, 0>>]
    /\ boids \in Lists
    /\ gridSize \in CellSizes
    /\ grid = buildSpatialHash(boids, pos, gridSize)
    /\ query = [op |-> "none"]

\* one tick of the host: a boid moves by one unit and the index is built afresh from
\* the current positions, with the same list and cell size
Tick(b, dx, dy) ==
    /\ query.op = "none"
    /\ <<pos[b][1] + dx, pos[b][2] + dy>> \in Positions
    /\ pos' = [pos EXCEPT ![b] = <<pos[b][1] + dx, pos[b][2] + dy>>]
    /\ grid' = buildSpatialHash(boids, pos', gridSize)
    /\ query' = [op |-> "none"]
    /\ UNCHANGED <<boids, gridSize>>

\* getNeighbors for boid b, which need not be in the index
Query(b) ==
    /\ query.op = "none"
    /\ query' = [op |-> "getNeighbors", boid |-> b,
                 ret |-> getNeighbors(pos[b], grid, gridSize)]
    /\ UNCHANGED <<pos, boids, grid, gridSize>>

\* the caller is done with the returned list; the index is as it was
EndQuery ==
    /\ query.op = "getNeighbors"
    /\ query' = [op |-> "none"]
    /\ UNCHANGED <<pos, boids, grid, gridSize>>

NextHash ==
    \/ \E b \in Boids, d \in {<<-1, 0>>, <<1, 0>>, <<0, -1>>, <<0, 1>>} :
           Tick(b, d[1], d[2]) /\ UNCHANGED fieldVars
    \/ \E b \in Boids : Query(b) /\ UNCHANGED fieldVars
    \/ EndQuery /\ UNCHANGED fieldVars

SpecHash == InitHash /\ [][NextHash]_vars

(* SpecKeys: two boids at positions of KeyPositions and a cell size of KeyCellSizes;
   the index of the two is built, and the key and the grid coordinates of each
   position are computed. *)
KeyCoords == (-4)..4
KeyPositions == KeyCoords \X KeyCoords
KeyCellSizes == 1..3

InitKeys ==
    /\ InitFieldIdle
    /\ pos \in [1..2 -> KeyPositions]
    /\ boids = <<1, 2>>
    /\ gridSize \in KeyCellSizes
    /\ grid = <<>>
    /\ query = [op |-> "none"]

KeyAndBuild ==
    /\ query.op = "none"
    /\ grid' = buildSpatialHash(boids, pos, gridSize)
    /\ query' = [op |-> "getCellKey",
                 ret |-> [b \in 1..2 |-> getCellKey(pos[b], gridSize)],
                 cells |-> [b \in 1..2 |-> worldToGrid(pos[b][1], pos[b][2], gridSize)]]
    /\ UNCHANGED <<pos, boids, gridSize>>

NextKeys == KeyAndBuild /\ UNCHANGED fieldVars

SpecKeys == InitKeys /\ [][NextKeys]_vars

(* SpecLists: a list of up to NumBoids entries that may name a boid more than once,
   the boids at positions of ListPositions and a cell size of CellSizes; the index of
   the list is built and read back whole. *)
ListPositions == {<<0, 0>>, <<1, 0>>, <<-1, -1>>}
AnyLists == UNION {[1..n -> Boids] : n \in 0..NumBoids}

InitLists ==
    /\ InitFieldIdle
    /\ pos \in [Boids -> ListPositions]
    /\ boids \in AnyLists
    /\ gridSize \in CellSizes
    /\ grid = <<>>
    /\ query = [op |-> "none"]

BuildAndList ==
    /\ query.op = "none"
    /\ grid' = buildSpatialHash(boids, pos, gridSize)
    /\ query' = [op |-> "getAllBoids", ret |-> getAllBoids(grid')]
    /\ UNCHANGED <<pos, boids, gridSize>>

NextLists == BuildAndList /\ UNCHANGED fieldVars

SpecLists == InitLists /\ [][NextLists]_vars

(* SpecAlias: the arrays of the index as objects.  heap is the store of arrays, a
   sequence indexed by reference; the caller's list is the array at InputList, boids
   is its content when handed to buildSpatialHash, a cell of grid is the reference of
   its bucket, and a query returns the reference of an array.  The caller may change
   the array a query returned, and lets go of it when asking again. *)
InputList == 1

\* [] : a new array at the next free reference
NewArray(h) == Append(h, <<>>)

\* for (const boid of boids), on the arrays of the store h
RECURSIVE BuildLoopIn(_, _, _, _, _, _)
BuildLoopIn(h, list, i, positions, cellSize, g) ==
    IF i > Len(h[list]) THEN [heap |-> h, grid |-> g]
    ELSE LET boid == h[list][i]
             key == getCellKey(positions[boid], cellSize)
             h1 == IF ~GridHas(g, key) THEN NewArray(h) ELSE h
             g1 == IF ~GridHas(g, key) THEN GridSet(g, key, Len(h1)) ELSE g
             h2 == [h1 EXCEPT ![GridGet(g1, key)] = Append(@, boid)]
         IN BuildLoopIn(h2, list, i + 1, positions, cellSize, g1)

buildSpatialHashIn(h, list, positions, cellSize) ==
    BuildLoopIn(h, list, 1, positions, cellSize, <<>>)

\* the grid with every bucket read from the store
Buckets(h, g) == [i \in 1..Len(g) |-> [key |-> g[i].key, cell |-> h[g[i].cell]]]

getNeighborsInOwnBucket(h, p, g, cellSize) ==
    LET key == getCellKey(p, cellSize)
    IN IF GridHas(g, key) THEN [heap |-> h, ret |-> GridGet(g, key)]
       ELSE [heap |-> NewArray(h), ret |-> Len(h) + 1]

\* const neighbors = []; neighbors.push(...grid.get(key)) per cell; return neighbors
getNeighborsIn(h, p, g, cellSize) ==
    LET neighbors == Len(h) + 1
    IN [heap |-> [NewArray(h) EXCEPT ![neighbors] = getNeighbors(p, Buckets(h, g), cellSize)],
        ret |-> neighbors]

\* const boids = []; boids.push(...cellBoids) per bucket; return boids
getAllBoidsIn(h, g) ==
    LET all == Len(h) + 1
    IN [heap |-> [NewArray(h) EXCEPT ![all] = getAllBoids(Buckets(h, g))],
        ret |-> all]

AliasPositions == {<<0, 0>>, <<1, 0>>}

InitAlias ==
    /\ cols = 1
    /\ rows = 1
    /\ cur = 1
    /\ old = 0
    /\ nops = 0
    /\ log = NoLog(1)
    /\ pos \in [Boids -> AliasPositions]
    /\ boids \in Lists
    /\ gridSize \in CellSizes
    /\ heap = <<boids>>
    /\ grid = <<>>
    /\ last = [op |-> "none"]
    /\ query = [op |-> "none"]

Built == last.op = "buildSpatialHash"

\* buildSpatialHash(boids, cellSize) on the caller's list; last keeps the list and the
\* positions as they were before the call and the index as it was returned
Build ==
    /\ ~Built
    /\ LET r == buildSpatialHashIn(heap, InputList, pos, gridSize)
       IN /\ heap' = r.heap
          /\ grid' = r.grid
          /\ last' = [op |-> "buildSpatialHash", list |-> heap[InputList], pos |-> pos,
                      index |-> Buckets(r.heap, r.grid)]
    /\ UNCHANGED <<cols, rows, cur, old, nops, log, pos, boids, gridSize, query>>

\* the store once the caller has let go of the array of the previous query
Release(h) == SubSeq(h, 1, 1 + Len(grid))

\* what the next query remembers of this one
Earlier ==
    IF query.op = "none" THEN [op |-> "none"]
    ELSE [op |-> query.op, boid |-> query.boid, val |-> query.val,
          touched |-> query.touched]

\* getNeighbors(b, grid, cellSize): query.val is the content of the returned array
\* at the return
NeighborsQuery(b) ==
    /\ Built
    /\ nops < MaxOps
    /\ LET r == getNeighborsIn(Release(heap), pos[b], grid, gridSize)
       IN /\ heap' = r.heap
          /\ query' = [op |-> "getNeighbors", boid |-> b, ret |-> r.ret,
                       val |-> r.heap[r.ret], touched |-> FALSE, prev |-> Earlier]
    /\ nops' = nops + 1
    /\ UNCHANGED <<cols, rows, cur, old, log, last, pos, boids, grid, gridSize>>

AllBoidsQuery ==
    /\ Built
    /\ nops < MaxOps
    /\ LET r == getAllBoidsIn(Release(heap), grid)
       IN /\ heap' = r.heap
          /\ query' = [op |-> "getAllBoids", boid |-> 0, ret |-> r.ret,
                       val |-> r.heap[r.ret], touched |-> FALSE, prev |-> Earlier]
    /\ nops' = nops + 1
    /\ UNCHANGED <<cols, rows, cur, old, log, last, pos, boids, grid, gridSize>>

CellCountQuery ==
    /\ Built
    /\ nops < MaxOps
    /\ heap' = Release(heap)
    /\ query' = [op |-> "getCellCount", boid |-> 0, ret |-> getCellCount(grid),
                 val |-> getCellCount(grid), touched |-> FALSE, prev |-> Earlier]
    /\ nops' = nops + 1
    /\ UNCHANGED <<cols, rows, cur, old, log, last, pos, boids, grid, gridSize>>

\* the caller changes the array it was returned: push(boid) or length = 0
Mutate(b) ==
    /\ query.op \in {"getNeighbors", "getAllBoids"}
    /\ ~query.touched
    /\ heap' = [heap EXCEPT ![query.ret] = IF b = 0 THEN <<>> ELSE Append(@, b)]
    /\ query' = [query EXCEPT !.touched = TRUE]
    /\ UNCHANGED <<cols, rows, cur, old, nops, log, last, pos, boids, grid, gridSize>>

NextAlias ==
    \/ Build
    \/ \E b \in Boids : NeighborsQuery(b)
    \/ AllBoidsQuery
    \/ CellCountQuery
    \/ \E b \in {0, 1} : Mutate(b)

SpecAlias == InitAlias /\ [][NextAlias]_vars

----------------------------------------------------------------------------
(* Ant sensing.  An angle is a whole number of eighths of a turn (pi/4), the default
   sensor angle being 1.  A vector component is <<sign, square>>: its sign and the
   square of its magnitude as a rational, which is exact for the cosines and sines of
   these angles (0, 1/2 and 1). *)

Half == <<1, 2>>

\* Math.cos(angle)
Cos(angle) ==
    LET k == angle % 8 IN
    CASE k = 0 -> <<1, One>>
      [] k \in {1, 7} -> <<1, Half>>
      [] k \in {2, 6} -> <<0, Zero>>
      [] k \in {3, 5} -> <<-1, Half>>
      [] k = 4 -> <<-1, One>>

\* Math.sin(angle)
Sin(angle) == Cos(angle - 2)

fromAngle(angle) == [x |-> Cos(angle), y |-> Sin(angle)]

\* v / Math.sqrt(v.x * v.x + v.y * v.y), and the zero vector for the zero vector
normalize(v) ==
    LET mag2 == Add(v.x[2], v.y[2]) IN
    IF mag2 = Zero THEN [x |-> <<0, Zero>>, y |-> <<0, Zero>>]
    ELSE [x |-> <<v.x[1], Mul(v.x[2], <<mag2[2], mag2[1]>>)>>,
          y |-> <<v.y[1], Mul(v.y[2], <<mag2[2], mag2[1]>>)>>]

chosenAngleTurnsOnTie(centerSense, leftSense, rightSense, currentHeading, sensorAngle) ==
    IF leftSense >= centerSense /\ leftSense >= rightSense
    THEN currentHeading - sensorAngle
    ELSE IF rightSense >= centerSense /\ rightSense >= leftSense
         THEN currentHeading + sensorAngle
         ELSE currentHeading

\* the if / else if / else of chooseSensorDirection
chosenAngle(centerSense, leftSense, rightSense, currentHeading, sensorAngle) ==
    IF leftSense > centerSense /\ leftSense > rightSense
    THEN currentHeading - sensorAngle
    ELSE IF rightSense > centerSense /\ rightSense > leftSense
         THEN currentHeading + sensorAngle
         ELSE currentHeading

chooseSensorDirection(centerSense, leftSense, rightSense, currentHeading, sensorAngle) ==
    normalize(fromAngle(chosenAngle(centerSense, leftSense, rightSense, currentHeading,
                                    sensorAngle)))

(* SpecSensing: chooseSensorDirection called with every combination of three readings
   of Readings, a heading of Headings and a sensor angle of SensorAngles. *)
Readings == 0..2
Headings == 0..7
SensorAngles == {1, 2}

InitSensing == InitFieldIdle /\ InitHashIdle

Sense(centerSense, leftSense, rightSense, currentHeading, sensorAngle) ==
    /\ last' = [op |-> "chooseSensorDirection", centerSense |-> centerSense,
                leftSense |-> leftSense, rightSense |-> rightSense,
                currentHeading |-> currentHeading, sensorAngle |-> sensorAngle,
                ret |-> chooseSensorDirection(centerSense, leftSense, rightSense,
                                              currentHeading, sensorAngle)]
    /\ UNCHANGED <<cols, rows, heap, cur, old, nops, log>>
    /\ UNCHANGED hashVars

NextSensing ==
    \E c \in Readings, l \in Readings, r \in Readings, h \in Headings, a \in SensorAngles :
        Sense(c, l, r, h, a)

SpecSensing == InitSensing /\ [][NextSensing]_vars

----------------------------------------------------------------------------
(* Equilibrium shift.  logQ, logK and threshold are whole numbers of tenths, so the
   default threshold 0.1 is 1. *)

DefaultThreshold == 1

determineShiftDirectionInclusive(logQ, logK, threshold) ==
    LET diff == logQ - logK IN
    IF Abs(diff) <= threshold THEN 0
    ELSE IF logQ < logK THEN 1
    ELSE -1

determineShiftDirection(logQ, logK, threshold) ==
    LET diff == logQ - logK IN
    IF Abs(diff) < threshold THEN 0
    ELSE IF logQ < logK THEN 1
    ELSE -1

(* SpecShift: determineShiftDirection called with logQ and logK of LogValues and a
   threshold of Thresholds, or without a threshold. *)
LogValues == (-3)..3
Thresholds == 0..2

Shift(logQ, logK, threshold) ==
    /\ last' = [op |-> "determineShiftDirection", logQ |-> logQ, logK |-> logK,
                threshold |-> threshold, given |-> TRUE,
                ret |-> determineShiftDirection(logQ, logK, threshold)]
    /\ UNCHANGED <<cols, rows, heap, cur, old, nops, log>>
    /\ UNCHANGED hashVars

ShiftDefault(logQ, logK) ==
    /\ last' = [op |-> "determineShiftDirection", logQ |-> logQ, logK |-> logK,
                threshold |-> DefaultThreshold, given |-> FALSE,
                ret |-> determineShiftDirection(logQ, logK, DefaultThreshold)]
    /\ UNCHANGED <<cols, rows, heap, cur, old, nops, log>>
    /\ UNCHANGED hashVars

InitShift == InitFieldIdle /\ InitHashIdle

NextShift ==
    \/ \E q \in LogValues, k \in LogValues, t \in Thresholds : Shift(q, k, t)
    \/ \E q \in LogValues, k \in LogValues : ShiftDefault(q, k)

SpecShift == InitShift /\ [][NextShift]_vars

----------------------------------------------------------------------------
(* Reaction catalog.  A reaction keeps its name, species, deltaH and gasChange; a species
   keeps its formula, coefficient and state.  Subscripts and charges of the names and
   formulas are written in plain letters. *)

Sp(formula, coeff, state) == [formula |-> formula, coeff |-> coeff, state |-> state]

HaberProcess ==
    [name |-> "Haber Process",
     reactants |-> <<Sp("N2", 1, "g"), Sp("H2", 3, "g")>>,
     products |-> <<Sp("NH3", 2, "g")>>,
     deltaH |-> -92, gasChange |-> -2]

ContactProcess ==
    [name |-> "Contact Process",
     reactants |-> <<Sp("SO2", 2, "g"), Sp("O2", 1, "g")>>,
     products |-> <<Sp("SO3", 2, "g")>>,
     deltaH |-> -198, gasChange |-> -1]

WaterGasShift ==
    [name |-> "Water-Gas Shift",
     reactants |-> <<Sp("CO", 1, "g"), Sp("H2O", 1, "g")>>,
     products |-> <<Sp("CO2", 1, "g"), Sp("H2", 1, "g")>>,
     deltaH |-> -41, gasChange |-> 0]

Esterification ==
    [name |-> "Esterification",
     reactants |-> <<Sp("CH3COOH", 1, "aq"), Sp("C2H5OH", 1, "l")>>,
     products |-> <<Sp("CH3COOC2H5", 1, "l"), Sp("H2O", 1, "l")>>,
     deltaH |-> -4, gasChange |-> 0]

NO2Dimerization ==
    [name |-> "NO2 Dimerization",
     reactants |-> <<Sp("NO2", 2, "g")>>,
     products |-> <<Sp("N2O4", 1, "g")>>,
     deltaH |-> -57, gasChange |-> -1]

MethaneSteamReforming ==
    [name |-> "Methane Steam Reforming",
     reactants |-> <<Sp("CH4", 1, "g"), Sp("H2O", 1, "g")>>,
     products |-> <<Sp("CO", 1, "g"), Sp("H2", 3, "g")>>,
     deltaH |-> 206, gasChange |-> 2]

CarbonicAcidEquilibrium ==
    [name |-> "Carbonic Acid Equilibrium",
     reactants |-> <<Sp("CO2", 1, "aq"), Sp("H2O", 1, "l")>>,
     products |-> <<Sp("H2CO3", 1, "aq")>>,
     deltaH |-> -20, gasChange |-> 0]

PCl5Decomposition ==
    [name |-> "PCl5 Decomposition",
     reactants |-> <<Sp("PCl5", 1, "g")>>,
     products |-> <<Sp("PCl3", 1, "g"), Sp("Cl2", 1, "g")>>,
     deltaH |-> 93, gasChange |-> 1]

CobaltChlorideHydration ==
    [name |-> "Cobalt Chloride Hydration",
     reactants |-> <<Sp("[CoCl4]2-", 1, "aq"), Sp("H2O", 6, "l")>>,
     products |-> <<Sp("[Co(H2O)6]2+", 1, "aq"), Sp("Cl-", 4, "aq")>>,
     deltaH |-> -50, gasChange |-> 0]

IronThiocyanate ==
    [name |-> "Iron(III) Thiocyanate",
     reactants |-> <<Sp("Fe3+", 1, "aq"), Sp("SCN-", 1, "aq")>>,
     products |-> <<Sp("FeSCN2+", 1, "aq")>>,
     deltaH |-> -3, gasChange |-> 0]

\* the catalog with the dissolved CO2 of the carbonic acid equilibrium entered as a gas
reactionsCarbonicAsGas ==
    <<HaberProcess, ContactProcess, WaterGasShift, Esterification, NO2Dimerization,
      MethaneSteamReforming,
      [CarbonicAcidEquilibrium EXCEPT !.reactants[1].state = "g"],
      PCl5Decomposition, CobaltChlorideHydration, IronThiocyanate>>

reactions ==
    <<HaberProcess, ContactProcess, WaterGasShift, Esterification, NO2Dimerization,
      MethaneSteamReforming, CarbonicAcidEquilibrium, PCl5Decomposition,
      CobaltChlorideHydration, IronThiocyanate>>

\* reactions.find(r => r.name === name): <<r>> for the first match, <<>> for undefined
RECURSIVE Find(_, _)
Find(name, i) ==
    IF i > Len(reactions) THEN <<>>
    ELSE IF reactions[i].name = name THEN <<reactions[i]>>
    ELSE Find(name, i + 1)

getReactionByName(name) == Find(name, 1)

IsExothermic(r) == r.deltaH < 0

getExothermicReactions == SelectSeq(reactions, IsExothermic)

IsEndothermic(r) == r.deltaH > 0

getEndothermicReactions == SelectSeq(reactions, IsEndothermic)

SomeGas(species) == \E i \in 1..Len(species) : species[i].state = "g"

InvolvesGas(r) == SomeGas(r.reactants) \/ SomeGas(r.products)

getGasReactions == SelectSeq(reactions, InvolvesGas)

InKExpression(s) == s.state = "g" \/ s.state = "aq"

\* species.reduce((sum, s) => sum + s.coeff, 0)
RECURSIVE ReduceCoeff(_, _)
ReduceCoeff(species, i) ==
    IF i > Len(species) THEN 0
    ELSE species[i].coeff + ReduceCoeff(species, i + 1)

calculateTotalCoefficients(species) ==
    LET sum == ReduceCoeff(SelectSeq(species, InKExpression), 1) IN
    IF sum = 0 THEN 1 ELSE sum

predictTemperatureEffect(deltaH, temperatureIncreases) ==
    IF deltaH = 0 THEN "none"
    ELSE LET isExothermic == deltaH < 0 IN
         IF temperatureIncreases
         THEN (IF isExothermic THEN "reverse" ELSE "forward")
         ELSE (IF isExothermic THEN "forward" ELSE "reverse")

predictPressureEffect(gasChange, pressureIncreases) ==
    IF gasChange = 0 THEN "none"
    ELSE IF pressureIncreases
         THEN (IF gasChange < 0 THEN "forward" ELSE "reverse")
         ELSE (IF gasChange > 0 THEN "forward" ELSE "reverse")

(* SpecCatalog: a caller looks a reaction up by name (query holds the lookup) and asks
   for the effect of a pressure or temperature change on it, for the coefficient total
   of one of its sides, or for one of the catalog's filtered lists (last holds the
   answer). *)
ReactionNames == {reactions[i].name : i \in 1..Len(reactions)} \cup {"Unknown"}

Selected == query.op = "getReactionByName" /\ Len(query.ret) = 1

Select(name) ==
    /\ query' = [op |-> "getReactionByName", name |-> name,
                 ret |-> getReactionByName(name)]
    /\ UNCHANGED <<pos, boids, grid, gridSize>>
    /\ UNCHANGED fieldVars

PressureEffect(pressureIncreases) ==
    /\ Selected
    /\ last' = [op |-> "predictPressureEffect", name |-> query.ret[1].name,
                gasChange |-> query.ret[1].gasChange,
                pressureIncreases |-> pressureIncreases,
                ret |-> predictPressureEffect(query.ret[1].gasChange, pressureIncreases)]
    /\ UNCHANGED <<cols, rows, heap, cur, old, nops, log>>
    /\ UNCHANGED hashVars

TemperatureEffect(temperatureIncreases) ==
    /\ Selected
    /\ last' = [op |-> "predictTemperatureEffect", name |-> query.ret[1].name,
                deltaH |-> query.ret[1].deltaH,
                temperatureIncreases |-> temperatureIncreases,
                ret |-> predictTemperatureEffect(query.ret[1].deltaH,
                                                 temperatureIncreases)]
    /\ UNCHANGED <<cols, rows, heap, cur, old, nops, log>>
    /\ UNCHANGED hashVars

TotalCoefficients(ofProducts) ==
    /\ Selected
    /\ LET species == IF ofProducts THEN query.ret[1].products
                      ELSE query.ret[1].reactants IN
       last' = [op |-> "calculateTotalCoefficients", name |-> query.ret[1].name,
                species |-> species, ret |-> calculateTotalCoefficients(species)]
    /\ UNCHANGED <<cols, rows, heap, cur, old, nops, log>>
    /\ UNCHANGED hashVars

ListReactions(which) ==
    /\ last' = [op |-> which,
                ret |-> CASE which = "getExothermicReactions" -> getExothermicReactions
                          [] which = "getEndothermicReactions" -> getEndothermicReactions
                          [] OTHER -> getGasReactions]
    /\ UNCHANGED <<cols, rows, heap, cur, old, nops, log>>
    /\ UNCHANGED hashVars

InitCatalog == InitFieldIdle /\ InitHashIdle

NextCatalog ==
    \/ \E name \in ReactionNames : Select(name)
    \/ \E b \in BOOLEAN : PressureEffect(b)
    \/ \E b \in BOOLEAN : TemperatureEffect(b)
    \/ \E b \in BOOLEAN : TotalCoefficients(b)
    \/ \E which \in {"getExothermicReactions", "getEndothermicReactions",
                     "getGasReactions"} : ListReactions(which)

SpecCatalog == InitCatalog /\ [][NextCatalog]_vars

----------------------------------------------------------------------------
(* Properties of the pheromone field engine *)

Cell(a, x, y) == a[x + y * cols + 1]
Xs == 0..(cols - 1)
Ys == 0..(rows - 1)
IsBoundary(x, y) == x = 0 \/ x = cols - 1 \/ y = 0 \/ y = rows - 1
Neighbours(x, y) == {<<x + dx, y + dy>> : dx \in (-1)..1, dy \in (-1)..1} \ {<<x, y>>}

RECURSIVE SumCells(_, _)
SumCells(a, S) ==
    IF S = {} THEN Zero
    ELSE LET p == CHOOSE q \in S : TRUE
         IN Add(Cell(a, p[1], p[2]), SumCells(a, S \ {p}))

NonNegative(a) == \A i \in 1..Len(a) : Leq(Zero, a[i])
IsStep == last.op \in {"diffuse", "evaporate"}
StepInput == last.pre[last.field]
StepOutput == heap[last.ret]

\* C1: after diffusePheromones on a grid of at least 3 x 3, every interior cell of the
\* returned array holds (c*(1-d) + (S/8)*d)*e, with c and the 8-neighbour sum S taken
\* from the input array alone.
C1_InteriorFormula ==
    last.op = "diffuse" =>
        \A x \in 1..(cols - 2), y \in 1..(rows - 2) :
            Cell(StepOutput, x, y) =
                Mul(Add(Mul(Cell(StepInput, x, y), Sub(One, last.diffusionRate)),
                        Mul(DivBy(SumCells(StepInput, Neighbours(x, y)), Eight),
                            last.diffusionRate)),
                    last.evaporationRate)

\* an interior cell whose upper neighbour is an interior cell written earlier in the
\* same call, with a new value that differs from its input value
C1_Witness ==
    /\ last.op = "diffuse"
    /\ last.diffusionRate = <<1, 2>>
    /\ last.evaporationRate = <<1, 2>>
    /\ \E x \in 1..(cols - 2), y \in 2..(rows - 2) :
           /\ Cell(StepInput, x, y - 1) # Zero
           /\ Cell(StepOutput, x, y - 1) # Cell(StepInput, x, y - 1)
           /\ Cell(StepOutput, x, y) # Zero

\* the boundary passes in the other order: columns first, then rows
BoundaryPassesColumnsFirst(field, next, c, r, evaporationRate) ==
    RowPass(field, ColPass(field, next, 0, c, r, evaporationRate), 0, c, r, evaporationRate)

\* C2: after diffusePheromones every boundary cell holds its input value times
\* evaporationRate (so it is unchanged when evaporationRate = 1), whatever the
\* diffusionRate and the neighbours, and the two boundary passes commute.
C2_BoundaryDecayOnly ==
    last.op = "diffuse" =>
        /\ \A x \in Xs, y \in Ys :
               IsBoundary(x, y) =>
                   /\ Cell(StepOutput, x, y) = Mul(Cell(StepInput, x, y), last.evaporationRate)
                   /\ last.evaporationRate = One =>
                          Cell(StepOutput, x, y) = Cell(StepInput, x, y)
        /\ StepOutput =
               InteriorPass(StepInput,
                   BoundaryPassesColumnsFirst(StepInput, NewFloat32Array(Len(StepInput)),
                                              cols, rows, last.evaporationRate),
                   1, cols, rows, last.diffusionRate, last.evaporationRate)

\* a non-zero corner of a grid with an interior, diffused with rates 1/2
C2_Witness ==
    /\ last.op = "diffuse"
    /\ last.diffusionRate = <<1, 2>>
    /\ last.evaporationRate = <<1, 2>>
    /\ cols >= 3 /\ rows >= 3
    /\ Cell(StepInput, 0, 0) # Zero
    /\ Cell(StepOutput, 0, 0) # Cell(StepInput, 0, 0)

\* C3: diffusePheromones and evaporatePheromones leave the array passed as field as
\* it was and return another array of the same length; a deposit into one of the two
\* arrays leaves the other as it was.
C3_InputNotModified ==
    /\ IsStep =>
           /\ last.ret # last.field
           /\ heap[last.field] = last.pre[last.field]
           /\ Len(StepOutput) = Len(StepInput)
    /\ (last.op = "deposit" /\ old # 0) =>
           /\ cur # old
           /\ \A s \in {cur, old} \ {last.field} : heap[s] = last.pre[s]

\* a deposit that changed the input array of the last step while the returned array
\* holds something else
C3_Witness ==
    /\ last.op = "deposit"
    /\ old # 0
    /\ last.field = old
    /\ heap[old] # last.pre[old]
    /\ heap[cur] # heap[old]

BoundaryZero(a) == \A x \in Xs, y \in Ys : IsBoundary(x, y) => Cell(a, x, y) = Zero

\* C4: for a non-negative input whose boundary cells are all zero, diffusionRate in
\* [0,1] and evaporationRate = 1, the total of the returned field is at most the total
\* of the input.
C4_InteriorMassNotCreated ==
    (/\ last.op = "diffuse"
     /\ last.evaporationRate = One
     /\ InUnit(last.diffusionRate)
     /\ NonNegative(StepInput)
     /\ BoundaryZero(StepInput)) =>
        Leq(getTotalPheromone(StepOutput), getTotalPheromone(StepInput))

\* a non-zero interior cell next to another interior cell and to the boundary: part of
\* its mass moves to the one and part is lost at the other
C4_Witness ==
    /\ last.op = "diffuse"
    /\ last.evaporationRate = One
    /\ last.diffusionRate = <<1, 2>>
    /\ NonNegative(StepInput)
    /\ BoundaryZero(StepInput)
    /\ \E x \in 1..(cols - 2), y \in 1..(rows - 3) :
           /\ Less(Zero, Cell(StepInput, x, y))
           /\ Less(Zero, Cell(StepOutput, x, y + 1))
    /\ Less(getTotalPheromone(StepOutput), getTotalPheromone(StepInput))

Idx(x, y) == x + y * cols + 1

\* C5: on a field made by createPheromoneField, a cell that received deposits of
\* non-negative amounts under one maxLevel reads min(sum of the amounts, maxLevel),
\* and is never above maxLevel.
C5_DepositAccumulatesAndSaturates ==
    \A x \in Xs, y \in Ys, m \in MaxLevels :
        (/\ log.steps = 0
         /\ log.cnt[Idx(x, y)] > 0
         /\ ~log.neg
         /\ log.maxs = {m}) =>
            /\ getPheromoneAt(heap[cur], cols, rows, x, y) =
                   (IF log.sum[Idx(x, y)] <= m THEN Num(log.sum[Idx(x, y)]) ELSE Num(m))
            /\ Leq(getPheromoneAt(heap[cur], cols, rows, x, y), Num(m))

\* a cell that two deposits have saturated: the amounts add up to more than maxLevel
\* and the cell reads maxLevel
C5_Witness ==
    /\ last.op = "deposit"
    /\ last.field = cur
    /\ last.ret = TRUE
    /\ log.steps = 0
    /\ ~log.neg
    /\ log.maxs = {FieldMax}
    /\ log.cnt[Idx(last.x, last.y)] = 2
    /\ log.sum[Idx(last.x, last.y)] > FieldMax
    /\ getPheromoneAt(heap[cur], cols, rows, last.x, last.y) = Num(FieldMax)

\* C6: depositPheromone with x < 0, x >= cols, y < 0 or y >= rows returns false and
\* leaves every cell of every array as it was; with (x, y) inside the grid it returns
\* true.
C6_DepositBoundsCheck ==
    last.op = "deposit" =>
        IF last.x < 0 \/ last.x >= cols \/ last.y < 0 \/ last.y >= rows
        THEN last.ret = FALSE /\ heap = last.pre
        ELSE last.ret = TRUE

\* a positive deposit at x = cols, refused, on a field that holds something
C6_Witness ==
    /\ last.op = "deposit"
    /\ last.x = cols
    /\ last.y \in Ys
    /\ last.amount > 0
    /\ last.ret = FALSE
    /\ \E i \in 1..Len(heap[cur]) : heap[cur][i] # Zero

InRange(a, m) == \A i \in 1..Len(a) : Leq(Zero, a[i]) /\ Leq(a[i], Num(m))

\* C16: getPheromoneAt returns 0 for every coordinate outside [0,cols) x [0,rows),
\* negative and equal-to-dimension values included, returns the stored value
\* field[x + y*cols] for a coordinate inside, and leaves every array as it was.
C16_ReadIsTotalAndPure ==
    last.op = "read" =>
        /\ (last.x < 0 \/ last.x >= cols \/ last.y < 0 \/ last.y >= rows) => last.ret = Zero
        /\ (last.x \in Xs /\ last.y \in Ys) => last.ret = heap[last.field][last.x + last.y * cols + 1]
        /\ heap = last.pre

\* a read at x = cols, y = 0 whose flat index x + y*cols falls on the non-zero cell
\* (0, 1): it returns 0
C16_Witness ==
    /\ last.op = "read"
    /\ last.field = cur
    /\ last.x = cols
    /\ last.y = 0
    /\ rows >= 2
    /\ heap[cur][last.x + last.y * cols + 1] # Zero
    /\ last.ret = Zero

\* C7 as stated: after deposits of any amounts under one maxLevel (taken non-negative,
\* as the interval supposes), every cell lies in [0, maxLevel].
C7_AnyAmountsInRange ==
    \A m \in MaxLevels :
        (log.steps = 0 /\ log.maxs = {m} /\ m >= 0) => InRange(heap[cur], m)

\* C7, amended: after deposits of non-negative amounts under one non-negative
\* maxLevel on a field made by createPheromoneField, every cell lies in [0, maxLevel].
C7_NonNegativeAmountsInRange ==
    \A m \in MaxLevels :
        (log.steps = 0 /\ log.maxs = {m} /\ m >= 0 /\ ~log.neg) => InRange(heap[cur], m)

\* one cell saturated by two deposits, the others still at zero
C7_Witness ==
    /\ log.steps = 0
    /\ log.maxs = {FieldMax}
    /\ ~log.neg
    /\ Len(heap[cur]) > 1
    /\ \E i \in 1..Len(heap[cur]) :
           /\ log.sum[i] > FieldMax
           /\ heap[cur][i] = Num(FieldMax)
           /\ \A j \in 1..Len(heap[cur]) : j # i => heap[cur][j] = Zero

NoInterior == cols <= 2 \/ rows <= 2

\* C17: on a grid without interior cell (cols or rows at most 2, down to 1 x 1)
\* diffusePheromones returns, for every diffusionRate, what evaporatePheromones returns
\* for the same evaporationRate: every cell is its input value times evaporationRate.
C17_NoInteriorIsEvaporation ==
    (last.op = "diffuse" /\ NoInterior) =>
        /\ StepOutput = evaporatePheromones(StepInput, last.evaporationRate)
        /\ \A i \in 1..(cols * rows) : StepOutput[i] = Mul(StepInput[i], last.evaporationRate)

\* a grid two cells wide and four cells tall with mass in a middle cell of the right
\* column, diffused with rates 1/2
C17_Witness ==
    /\ last.op = "diffuse"
    /\ cols = 2 /\ rows = 4
    /\ last.diffusionRate = <<1, 2>>
    /\ last.evaporationRate = <<1, 2>>
    /\ Less(Zero, Cell(StepInput, 1, 2))
    /\ Cell(StepOutput, 1, 2) = Mul(Cell(StepInput, 1, 2), <<1, 2>>)

\* C18: for every grid and field, diffusePheromones with diffusionRate = 0 returns what
\* evaporatePheromones returns for the same evaporationRate: every cell is its input
\* value times evaporationRate, and the field is unchanged when evaporationRate = 1.
C18_ZeroDiffusionIsEvaporation ==
    (last.op = "diffuse" /\ last.diffusionRate = Zero) =>
        /\ StepOutput = evaporatePheromones(StepInput, last.evaporationRate)
        /\ \A i \in 1..(cols * rows) : StepOutput[i] = Mul(StepInput[i], last.evaporationRate)
        /\ last.evaporationRate = One => StepOutput = StepInput

\* an interior cell with mass next to another interior cell, diffused with
\* diffusionRate 0 and evaporationRate 1/2: the cell is halved, its neighbour stays 0
C18_Witness ==
    /\ last.op = "diffuse"
    /\ last.diffusionRate = Zero
    /\ last.evaporationRate = <<1, 2>>
    /\ \E x \in 1..(cols - 2), y \in 1..(rows - 3) :
           /\ Less(Zero, Cell(StepInput, x, y))
           /\ Cell(StepOutput, x, y) = Mul(Cell(StepInput, x, y), <<1, 2>>)
           /\ Cell(StepOutput, x, y + 1) = Zero

\* C19: for every grid, field and diffusionRate, diffusePheromones with
\* evaporationRate = 0 returns a field whose cells are all 0.
C19_ZeroEvaporationClears ==
    (last.op = "diffuse" /\ last.evaporationRate = Zero) =>
        \A i \in 1..(cols * rows) : StepOutput[i] = Zero

\* a field with mass in an interior cell, cleared by a step with diffusionRate 1/2
C19_Witness ==
    /\ last.op = "diffuse"
    /\ last.evaporationRate = Zero
    /\ last.diffusionRate = <<1, 2>>
    /\ \E x \in 1..(cols - 2), y \in 1..(rows - 2) : Less(Zero, Cell(StepInput, x, y))
    /\ Len(StepOutput) = cols * rows
    /\ getTotalPheromone(StepOutput) = Zero

\* C23 as stated: for a non-negative input, with mass on boundary cells allowed,
\* diffusionRate in [0,1] and evaporationRate = 1, the total of the returned field is
\* at most the total of the input.
C23_MassNeverCreated ==
    (/\ last.op = "diffuse"
     /\ last.evaporationRate = One
     /\ InUnit(last.diffusionRate)
     /\ NonNegative(StepInput)) =>
        Leq(getTotalPheromone(StepOutput), getTotalPheromone(StepInput))

----------------------------------------------------------------------------
(* Properties of single diffusion steps *)

\* a is zero except for one positive value, at the interior cell (x, y)
SingleImpulseAt(a, x, y) ==
    /\ x \in 1..(cols - 2) /\ y \in 1..(rows - 2)
    /\ Less(Zero, Cell(a, x, y))
    /\ \A i \in 1..Len(a) : i # Idx(x, y) => a[i] = Zero

\* the field the last diffusion step would have returned under diffusionRate d
StepOutputUnder(d) == diffusePheromones(StepInput, cols, rows, d, last.evaporationRate)

\* C15 as stated: for a single positive impulse at an interior cell and d1 < d2, every
\* one of the 8 neighbours is strictly larger under d2 and the impulse cell is not
\* larger under d2.
C15_AllNeighboursGrow ==
    last.op = "diffuse" =>
        \A x \in Xs, y \in Ys, d1 \in DiffusionRates :
            (SingleImpulseAt(StepInput, x, y) /\ Less(d1, last.diffusionRate)) =>
                /\ \A n \in Neighbours(x, y) :
                       Less(Cell(StepOutputUnder(d1), n[1], n[2]), Cell(StepOutput, n[1], n[2]))
                /\ Leq(Cell(StepOutput, x, y), Cell(StepOutputUnder(d1), x, y))

\* C15, amended: for a single positive impulse at an interior cell, evaporationRate
\* e > 0 and d1 < d2, every neighbour of the impulse that is an interior cell is
\* strictly larger under d2, every neighbour on the boundary is 0 under both, and the
\* impulse cell is not larger under d2 (for every e).
C15_InteriorNeighboursGrow ==
    last.op = "diffuse" =>
        \A x \in Xs, y \in Ys, d1 \in DiffusionRates :
            (SingleImpulseAt(StepInput, x, y) /\ Less(d1, last.diffusionRate)) =>
                /\ Less(Zero, last.evaporationRate) =>
                       \A n \in Neighbours(x, y) :
                           IF IsBoundary(n[1], n[2])
                           THEN /\ Cell(StepOutputUnder(d1), n[1], n[2]) = Zero
                                /\ Cell(StepOutput, n[1], n[2]) = Zero
                           ELSE Less(Cell(StepOutputUnder(d1), n[1], n[2]),
                                     Cell(StepOutput, n[1], n[2]))
                /\ Leq(Cell(StepOutput, x, y), Cell(StepOutputUnder(d1), x, y))

\* an impulse in the middle of a 5 x 5 grid, diffused with rate 1 and evaporation 1/2:
\* all 8 neighbours are interior cells and hold more than under rate 1/2
C15_Witness ==
    /\ last.op = "diffuse"
    /\ cols = 5 /\ rows = 5
    /\ SingleImpulseAt(StepInput, 2, 2)
    /\ last.diffusionRate = One
    /\ last.evaporationRate = <<1, 2>>
    /\ \A n \in Neighbours(2, 2) :
           /\ ~IsBoundary(n[1], n[2])
           /\ Less(Zero, Cell(StepOutputUnder(<<1, 2>>), n[1], n[2]))
           /\ Less(Cell(StepOutputUnder(<<1, 2>>), n[1], n[2]), Cell(StepOutput, n[1], n[2]))
    /\ Less(Cell(StepOutput, 2, 2), Cell(StepOutputUnder(<<1, 2>>), 2, 2))

----------------------------------------------------------------------------
(* Properties of the total across a diffusion step *)

\* (x, y) lies at least 2 cells from every edge: its 8 neighbours are interior cells
DeepInside(x, y) == x >= 2 /\ x <= cols - 3 /\ y >= 2 /\ y <= rows - 3

AllMassDeepInside(a) ==
    \A x \in Xs, y \in Ys : Cell(a, x, y) # Zero => DeepInside(x, y)

\* diffusion rates below 0, within [0, 1] and above 1
AnyRates == DiffusionRates \cup {<<-1, 2>>, <<2, 1>>}

\* an interior cell with a boundary cell among its 8 neighbours
InteriorByBoundary(x, y) ==
    /\ ~IsBoundary(x, y)
    /\ \E n \in Neighbours(x, y) : IsBoundary(n[1], n[2])

----------------------------------------------------------------------------
(* Properties of deposits on a saturated cell *)

\* the cell the last deposit was aimed at, before and after the call
DepositCellBefore == last.pre[last.field][last.x + last.y * cols + 1]
DepositCellAfter == heap[last.field][last.x + last.y * cols + 1]
AcceptedDeposit == last.op = "deposit" /\ last.ret = TRUE

\* C24: a depositPheromone call that returns true leaves every cell other than the one
\* at index x + y*cols as it was, in the array it was given and in every other array,
\* and the value it stores depends on no cell but that one, whatever the amount and
\* maxLevel.
C24_DepositTouchesOneCell ==
    AcceptedDeposit =>
        /\ \A s \in Slots : \A i \in 1..Len(heap[s]) :
               (s # last.field \/ i # last.x + last.y * cols + 1) => heap[s][i] = last.pre[s][i]
        /\ \A s \in Slots : Len(heap[s]) = Len(last.pre[s])
        /\ DepositCellAfter =
               MathMin(Add(DepositCellBefore, Num(last.amount)), Num(last.maxPheromone))

\* a deposit that changes its cell while the cell after it in the array, which another
\* deposit filled before, keeps its value
C24_Witness ==
    /\ AcceptedDeposit
    /\ DepositCellAfter # DepositCellBefore
    /\ last.x + last.y * cols + 2 <= cols * rows
    /\ heap[last.field][last.x + last.y * cols + 2] # Zero
    /\ heap[last.field][last.x + last.y * cols + 2] =
           last.pre[last.field][last.x + last.y * cols + 2]

\* a positive deposit into a cell below maxLevel raises it, to at most maxLevel
RaisedAgain ==
    (AcceptedDeposit /\ last.amount > 0 /\ Less(DepositCellBefore, Num(last.maxPheromone))) =>
        /\ Less(DepositCellBefore, DepositCellAfter)
        /\ Leq(DepositCellAfter, Num(last.maxPheromone))

\* C20 as stated: a deposit of any amount into a cell that equals maxLevel leaves it at
\* maxLevel; a positive deposit into a cell below maxLevel raises it, to at most
\* maxLevel.
C20_AnyDepositKeepsSaturated ==
    /\ (AcceptedDeposit /\ DepositCellBefore = Num(last.maxPheromone)) =>
           DepositCellAfter = Num(last.maxPheromone)
    /\ RaisedAgain

\* C20, amended: a deposit of a non-negative amount into a cell that equals maxLevel
\* leaves it at maxLevel; once a step has lowered the cell, a positive deposit into the
\* returned field raises it again, to at most maxLevel.
C20_NonNegativeDepositKeepsSaturated ==
    /\ (AcceptedDeposit /\ last.amount >= 0 /\ DepositCellBefore = Num(last.maxPheromone)) =>
           DepositCellAfter = Num(last.maxPheromone)
    /\ RaisedAgain

\* a cell saturated by two deposits, lowered below maxLevel by one step, and raised to
\* maxLevel again by a positive deposit into the returned field
C20_Witness ==
    /\ AcceptedDeposit
    /\ log.steps = 1
    /\ last.field = cur
    /\ last.amount > 0
    /\ heap[old][last.x + last.y * cols + 1] = Num(FieldMax)
    /\ Less(Zero, DepositCellBefore)
    /\ Less(DepositCellBefore, Num(FieldMax))
    /\ DepositCellAfter = Num(FieldMax)

----------------------------------------------------------------------------
(* Properties of successive evaporation steps *)

\* r^k
RECURSIVE Power(_, _)
Power(r, k) == IF k = 0 THEN One ELSE Mul(r, Power(r, k - 1))

\* C22: evaporatePheromones returns every cell, boundary or interior, as its input
\* value times evaporationRate, so after k successive calls with rate r, each on the
\* result of the one before, every cell is its original value times r^k.
C22_EvaporationScalesEveryCell ==
    last.op = "evaporate" =>
        /\ \A i \in 1..(cols * rows) :
               StepOutput[i] = Mul(StepInput[i], last.evaporationRate)
        /\ Len(last.origin) = cols * rows
        /\ \A i \in 1..(cols * rows) :
               StepOutput[i] = Mul(last.origin[i], Power(last.evaporationRate, last.run))

\* the second of two successive evaporations with rate 1/2 of a 3 x 3 field whose
\* centre cell held maxLevel: the centre holds a quarter of it, the boundary holds 0
C22_Witness ==
    /\ last.op = "evaporate"
    /\ last.run = 2
    /\ last.evaporationRate = <<1, 2>>
    /\ cols = 3 /\ rows = 3
    /\ Cell(last.origin, 1, 1) = Num(FieldMax)
    /\ Cell(StepOutput, 1, 1) = DivBy(Num(FieldMax), Num(4))
    /\ BoundaryZero(StepOutput)

----------------------------------------------------------------------------
(* Properties of interleaved deposits and steps *)

\* no call so far was outside the inputs the range is stated for: amounts >= 0, the
\* one maxLevel FieldMax, rates within [0, 1]
WithinStatedInputs == ~log.neg /\ ~log.wild /\ log.maxs \subseteq {FieldMax}

\* no cell of a is above every cell of b
BelowLargest(a, b) ==
    \A i \in 1..Len(a) : \E j \in 1..Len(b) : Leq(a[i], b[j])

\* C28: from createPheromoneField, under any interleaving of deposits (amount >= 0,
\* one maxLevel), diffusion steps and evaporation steps (rates within [0, 1]) whose
\* result becomes the current field, every cell of the current field stays within
\* [0, maxLevel]; and a diffusion step with rates within [0, 1] on a non-negative
\* field raises no cell above the largest cell of its input.
C28_FieldStaysInRange ==
    /\ WithinStatedInputs => InRange(heap[cur], FieldMax)
    /\ (/\ last.op = "diffuse"
        /\ InUnit(last.diffusionRate)
        /\ InUnit(last.evaporationRate)
        /\ NonNegative(StepInput)) => BelowLargest(StepOutput, StepInput)

\* on a 3 x 3 field with one saturated cell, a positive deposit at another cell and
\* then a diffusion step that moved mass into the interior cell
C28_Witness ==
    /\ WithinStatedInputs
    /\ cols = 3
    /\ rows = 3
    /\ last.op = "diffuse"
    /\ last.diffusionRate = <<1, 2>>
    /\ log.steps = 1
    /\ \E i \in 1..Len(StepInput) : StepInput[i] = Num(FieldMax)
    /\ \E i \in 1..Len(StepInput) : StepInput[i] = Num(MaxAmount)
    /\ Less(Zero, Cell(StepOutput, 1, 1))
    /\ Less(Cell(StepInput, 1, 1), Cell(StepOutput, 1, 1))

----------------------------------------------------------------------------
(* Properties of the spatial hash index *)

\* floor(v / s), stated by its defining inequality
CellRange == {c + k : c \in Coords, k \in (-1)..1}
Floor(v, s) == CHOOSE q \in CellRange : q * s <= v /\ v < (q + 1) * s

CellOf(b) == <<Floor(pos[b][1], gridSize), Floor(pos[b][2], gridSize)>>

\* the cells of a and b differ by at most 1 in each axis
Adjacent(a, b) ==
    LET ca == CellOf(a)
        cb == CellOf(b)
    IN Abs(ca[1] - cb[1]) <= 1 /\ Abs(ca[2] - cb[2]) <= 1

Count(list, b) == Cardinality({i \in 1..Len(list) : list[i] = b})
DistanceSquared(a, b) ==
    (pos[a][1] - pos[b][1]) * (pos[a][1] - pos[b][1])
        + (pos[a][2] - pos[b][2]) * (pos[a][2] - pos[b][2])

\* C9: getNeighbors returns each indexed boid of the 3 x 3 block of cells around the
\* queried boid's cell exactly as often as it is stored (the queried boid included when
\* it is indexed), and no boid of any other cell; cells without a bucket add nothing.
C9_NeighborsAreTheBlock ==
    query.op = "getNeighbors" =>
        \A b \in Boids :
            Count(query.ret, b) = (IF Adjacent(query.boid, b) THEN Count(boids, b) ELSE 0)

\* three indexed boids in three cells: the queried one, one in an adjacent cell (which
\* is returned) and one two cells away (which is not)
C9_Witness ==
    /\ query.op = "getNeighbors"
    /\ Len(boids) = 3
    /\ Len(query.ret) = 2
    /\ Count(query.ret, query.boid) = 1
    /\ \E b \in Boids : b # query.boid /\ CellOf(b) # CellOf(query.boid)
                        /\ Count(query.ret, b) = 1
    /\ \E b \in Boids : ~Adjacent(query.boid, b)

\* C10: after any sequence of ticks, each followed by a rebuild of the index, the
\* candidates of an indexed boid a contain every indexed boid within distance
\* cellSize of a.
C10_CandidatesCoverRadius ==
    (query.op = "getNeighbors" /\ Count(boids, query.boid) > 0) =>
        \A b \in Boids :
            (Count(boids, b) > 0
             /\ DistanceSquared(query.boid, b) <= gridSize * gridSize) =>
                Count(query.ret, b) > 0

\* after ticks into negative coordinates: a boid at distance cellSize, in another
\* cell, is among the candidates, and the candidates leave another indexed boid out
C10_Witness ==
    /\ query.op = "getNeighbors"
    /\ Count(boids, query.boid) > 0
    /\ pos[query.boid][1] < 0
    /\ \E b \in Boids :
           /\ b # query.boid
           /\ Count(boids, b) > 0
           /\ CellOf(b) # CellOf(query.boid)
           /\ DistanceSquared(query.boid, b) = gridSize * gridSize
           /\ Count(query.ret, b) > 0
    /\ \E b \in Boids : Count(boids, b) > 0 /\ Count(query.ret, b) = 0

\* the cells of a and b are two or more cells apart in both axes
FarInBothAxes(a, b) ==
    LET ca == CellOf(a)
        cb == CellOf(b)
    IN Abs(ca[1] - cb[1]) >= 2 /\ Abs(ca[2] - cb[2]) >= 2

\* C11: an indexed boid is among the candidates of every querying boid whose cell is
\* its own cell or one of the 8 cells around it, and is not among the candidates of a
\* querying boid whose cell is two or more cells away in both axes.
C11_RetrievableIffNear ==
    query.op = "getNeighbors" =>
        \A b \in Boids :
            Count(boids, b) > 0 =>
                /\ Adjacent(query.boid, b) => Count(query.ret, b) > 0
                /\ FarInBothAxes(query.boid, b) => Count(query.ret, b) = 0

\* a query from a corner cell: one indexed boid sits in the diagonally adjacent cell
\* and is returned, another sits two cells away in both axes and is not
C11_Witness ==
    /\ query.op = "getNeighbors"
    /\ \E b \in Boids :
           /\ Count(boids, b) > 0
           /\ Abs(CellOf(query.boid)[1] - CellOf(b)[1]) = 1
           /\ Abs(CellOf(query.boid)[2] - CellOf(b)[2]) = 1
           /\ Count(query.ret, b) > 0
    /\ \E b \in Boids :
           /\ Count(boids, b) > 0
           /\ FarInBothAxes(query.boid, b)
           /\ Count(query.ret, b) = 0

\* the number of times b is stored in the buckets of g whose key is in keys
RECURSIVE Stored(_, _, _, _)
Stored(g, i, b, keys) ==
    IF i > Len(g) THEN 0
    ELSE (IF g[i].key \in keys THEN Count(g[i].cell, b) ELSE 0) + Stored(g, i + 1, b, keys)

GridKeys(g) == {g[i].key : i \in 1..Len(g)}

\* the scenario of the specification: three boids at (25,25), (75,25), (25,75)
ScenarioPositions == <<(<<25, 25>>), (<<75, 25>>), (<<25, 75>>)>>
ScenarioGrid == buildSpatialHash(<<1, 2, 3>>, ScenarioPositions, 50)

\* C12: buildSpatialHash stores every boid of the list once, in the bucket keyed by its
\* cell (floor(x/s), floor(y/s)) and in no other; no bucket is empty and no key occurs
\* twice, so getCellCount is the number of distinct cells the boids occupy (0 for the
\* empty list); boids at (25,25), (75,25), (25,75) with s = 50 give the three singleton
\* buckets '0,0', '1,0', '0,1'.
C12_OneBucketPerOccupiedCell ==
    /\ LET keys == GridKeys(grid) IN
       \A b \in Boids :
           /\ Stored(grid, 1, b, keys) = Count(boids, b)
           /\ LET cb == CellOf(b) IN
              Stored(grid, 1, b, {Key(cb[1], cb[2])}) = Count(boids, b)
    /\ \A i \in 1..Len(grid) : grid[i].cell # <<>>
    /\ \A i, j \in 1..Len(grid) : grid[i].key = grid[j].key => i = j
    /\ getCellCount(grid) = Cardinality({CellOf(b) : b \in {c \in Boids : Count(boids, c) > 0}})
    /\ boids = <<>> => getCellCount(grid) = 0
    /\ ScenarioGrid = <<[key |-> "0,0", cell |-> <<1>>], [key |-> "1,0", cell |-> <<2>>],
                        [key |-> "0,1", cell |-> <<3>>]>>
    /\ getCellCount(ScenarioGrid) = 3

\* three indexed boids in two cells, one of them a cell of negative x that two boids
\* at different positions share
C12_Witness ==
    /\ Len(boids) = 3
    /\ getCellCount(grid) = 2
    /\ gridSize = 2
    /\ \E a, b \in Boids : a # b /\ pos[a] # pos[b] /\ CellOf(a) = CellOf(b)
                           /\ CellOf(a)[1] < 0

\* floor(v / s) for the coordinates of SpecKeys, by its defining inequality
WideFloor(v, s) == CHOOSE q \in KeyCoords : q * s <= v /\ v < (q + 1) * s
WideCellOf(b) == <<WideFloor(pos[b][1], gridSize), WideFloor(pos[b][2], gridSize)>>
Keyed == query.op = "getCellKey"

\* a and b are stored in one bucket of the index
ShareBucket(a, b) ==
    \E i \in 1..Len(grid) : Count(grid[i].cell, a) > 0 /\ Count(grid[i].cell, b) > 0

\* C13: two positions have the same key exactly when they have the same cell
\* coordinates (floor(x/s), floor(y/s)), and two boids share a bucket exactly then; a
\* cell of negative coordinates shares neither key nor bucket with its positive
\* counterpart or any other cell, as for cell (1,-2) and cell (-1,2).
C13_KeyIffSameCell ==
    Keyed =>
        /\ query.ret[1] = query.ret[2] <=> WideCellOf(1) = WideCellOf(2)
        /\ ShareBucket(1, 2) <=> WideCellOf(1) = WideCellOf(2)

\* two boids in the mirrored cells (1,-2) and (-1,2): different keys, different buckets
C13_Witness ==
    /\ Keyed
    /\ gridSize = 2
    /\ WideCellOf(1) = <<1, -2>>
    /\ WideCellOf(2) = <<-1, 2>>
    /\ query.ret[1] = "1,-2"
    /\ query.ret[2] = "-1,2"
    /\ ~ShareBucket(1, 2)

\* the key built from the grid coordinates worldToGrid returns
GridKey(g) == ToString(g.gx) \o "," \o ToString(g.gy)

\* C14: for every position and positive cell size, getCellKey is the key 'gx,gy' of the
\* grid coordinates worldToGrid returns, buildSpatialHash stores a boid under that key,
\* and each coordinate is floor(coordinate / s).
C14_KeyIsWorldToGrid ==
    Keyed =>
        \A b \in 1..2 :
            /\ query.ret[b] = GridKey(query.cells[b])
            /\ query.cells[b] = [gx |-> WideCellOf(b)[1], gy |-> WideCellOf(b)[2]]
            /\ \E i \in 1..Len(grid) :
                   grid[i].key = GridKey(query.cells[b]) /\ Count(grid[i].cell, b) > 0

\* a boid at (-4, 3) with cell size 2, an exact multiple and a negative coordinate: grid
\* coordinates (-2, 1), stored under the key '-2,1'
C14_Witness ==
    /\ Keyed
    /\ gridSize = 2
    /\ pos[1] = <<-4, 3>>
    /\ query.cells[1] = [gx |-> -2, gy |-> 1]
    /\ query.ret[1] = "-2,1"
    /\ \E i \in 1..Len(grid) : grid[i].key = "-2,1" /\ Count(grid[i].cell, 1) > 0

\* the index in the list of the first entry that lies in the cell of entry i
FirstInCell(i) == CHOOSE j \in 1..i :
    /\ CellOf(boids[j]) = CellOf(boids[i])
    /\ \A k \in 1..(j - 1) : CellOf(boids[k]) # CellOf(boids[i])

\* entry i of the list comes before entry j in bucket-iteration order: buckets in the
\* order their first entry occurs in the list, entries of a bucket in list order
BucketBefore(i, j) ==
    \/ FirstInCell(i) < FirstInCell(j)
    \/ FirstInCell(i) = FirstInCell(j) /\ i < j

\* the place of entry i of the list in bucket-iteration order
BucketRank(i) == 1 + Cardinality({j \in 1..Len(boids) : BucketBefore(j, i)})

\* C21: getAllBoids of the index built from a list returns a list of the same length
\* that holds each boid as often as the list does and nothing else (the empty list for
\* the empty list), the entries in bucket-iteration order.
C21_AllBoidsIsPermutation ==
    query.op = "getAllBoids" =>
        /\ Len(query.ret) = Len(boids)
        /\ \A b \in Boids : Count(query.ret, b) = Count(boids, b)
        /\ \A i \in 1..Len(boids) : query.ret[BucketRank(i)] = boids[i]
        /\ boids = <<>> => query.ret = <<>>

\* a list that names one boid twice and another boid, in another cell, between the two:
\* the result holds the first boid twice and is in another order than the list
C21_Witness ==
    /\ query.op = "getAllBoids"
    /\ Len(boids) = 3
    /\ boids[1] = boids[3]
    /\ boids[2] # boids[1]
    /\ CellOf(boids[2]) # CellOf(boids[1])
    /\ Count(query.ret, boids[1]) = 2
    /\ query.ret = <<boids[1], boids[1], boids[2]>>
    /\ query.ret # boids

----------------------------------------------------------------------------
(* Properties of the arrays of the spatial hash index *)

BucketRefs == {grid[i].cell : i \in 1..Len(grid)}

ReturnsList == query.op \in {"getNeighbors", "getAllBoids"}

Given == {boids[i] : i \in 1..Len(boids)}

\* C30: buildSpatialHash leaves the caller's list and the boids as they were and its
\* buckets hold the given boids themselves, each bucket an array of its own;
\* getNeighbors, getCellCount and getAllBoids leave the index and its buckets as built
\* and return an array that is neither a bucket nor the caller's list; a repeated
\* query returns the same candidates, also after the caller changed the array the
\* first one returned.
C30_IndexSharesNoArray ==
    Built =>
        /\ heap[InputList] = last.list
        /\ last.list = boids
        /\ pos = last.pos
        /\ last.index = buildSpatialHash(boids, pos, gridSize)
        /\ Buckets(heap, grid) = last.index
        /\ \A i \in 1..Len(grid) :
               \A j \in 1..Len(heap[grid[i].cell]) : heap[grid[i].cell][j] \in Given
        /\ InputList \notin BucketRefs
        /\ Cardinality(BucketRefs) = Len(grid)
        /\ ReturnsList =>
               /\ query.ret \notin BucketRefs \cup {InputList}
               /\ ~query.touched => heap[query.ret] = query.val
        /\ (/\ query.op # "none"
            /\ query.prev.op = query.op
            /\ query.prev.boid = query.boid) => query.val = query.prev.val

\* getNeighbors returned at least two boids, the caller emptied or extended the array,
\* and the same query was made again
C30_Witness ==
    /\ Built
    /\ query.op = "getNeighbors"
    /\ query.prev.op = "getNeighbors"
    /\ query.prev.boid = query.boid
    /\ query.prev.touched
    /\ Len(query.val) >= 2
    /\ Len(grid) >= 2

----------------------------------------------------------------------------
(* Properties of ant sensing *)

Sensed == last.op = "chooseSensorDirection"
LeftHighest == last.leftSense > last.centerSense /\ last.leftSense > last.rightSense
RightHighest == last.rightSense > last.centerSense /\ last.rightSense > last.leftSense

\* the unit vector at angle: cosine and sine, each as sign and squared magnitude
UnitVector(angle) == [x |-> Cos(angle), y |-> Sin(angle)]

\* C25: chooseSensorDirection returns the direction heading - sensorAngle exactly when
\* leftSense is strictly greater than both other readings, heading + sensorAngle exactly
\* when rightSense is strictly greater than both others, and the unchanged heading in
\* every other case (centre highest, or the highest reading tied).
C25_TurnsTowardsStrictMaximum ==
    Sensed =>
        /\ last.ret = UnitVector(last.currentHeading - last.sensorAngle) <=> LeftHighest
        /\ last.ret = UnitVector(last.currentHeading + last.sensorAngle) <=> RightHighest
        /\ last.ret = UnitVector(last.currentHeading) <=> (~LeftHighest /\ ~RightHighest)

\* left and right tied above the centre: the heading is kept
C25_Witness ==
    /\ Sensed
    /\ last.leftSense = last.rightSense
    /\ last.leftSense > last.centerSense
    /\ last.sensorAngle = 1
    /\ last.currentHeading = 1
    /\ last.ret = [x |-> <<1, Half>>, y |-> <<1, Half>>]

----------------------------------------------------------------------------
(* Properties of the equilibrium shift *)

Shifted == last.op = "determineShiftDirection"

\* |a - b| without the model's Abs
Distance(a, b) == IF a >= b THEN a - b ELSE b - a

\* C26: determineShiftDirection returns 0 exactly when |logQ - logK| < threshold (the
\* threshold being 0.1 when none is given); otherwise it returns 1 when logQ < logK and
\* -1 when logQ > logK; a difference of exactly the threshold is a shift.
C26_ShiftDirection ==
    Shifted =>
        /\ ~last.given => last.threshold = 1
        /\ last.ret = 0 <=> Distance(last.logQ, last.logK) < last.threshold
        /\ (last.ret # 0 /\ last.logQ < last.logK) => last.ret = 1
        /\ (last.ret # 0 /\ last.logQ > last.logK) => last.ret = -1
        /\ (Distance(last.logQ, last.logK) = last.threshold /\ last.logQ # last.logK) =>
               last.ret # 0

\* no threshold given and logQ exactly 0.1 below logK: a forward shift
C26_Witness ==
    /\ Shifted
    /\ ~last.given
    /\ last.logK - last.logQ = 1
    /\ last.ret = 1

----------------------------------------------------------------------------
(* Properties of the reaction catalog *)

\* the sum of the coefficients of the gas-phase species among the first n of a side
RECURSIVE GasMoles(_, _)
GasMoles(species, n) ==
    IF n = 0 THEN 0
    ELSE GasMoles(species, n - 1)
         + (IF species[n].state = "g" THEN species[n].coeff ELSE 0)

StoichiometricGasChange(r) ==
    GasMoles(r.products, Len(r.products)) - GasMoles(r.reactants, Len(r.reactants))

NoGasSpecies(r) ==
    /\ \A i \in 1..Len(r.reactants) : r.reactants[i].state # "g"
    /\ \A i \in 1..Len(r.products) : r.products[i].state # "g"

\* C27: every reaction of the catalog, and so the reaction a lookup returns, has a
\* gasChange equal to the coefficients of its gas-phase products minus those of its
\* gas-phase reactants; a reaction without gas-phase species has gasChange 0.
C27_GasChangeMatchesStoichiometry ==
    /\ \A i \in 1..Len(reactions) :
           /\ reactions[i].gasChange = StoichiometricGasChange(reactions[i])
           /\ NoGasSpecies(reactions[i]) => reactions[i].gasChange = 0
    /\ Selected =>
           /\ query.ret[1].gasChange = StoichiometricGasChange(query.ret[1])
           /\ NoGasSpecies(query.ret[1]) => query.ret[1].gasChange = 0

\* the gas-free reaction of the catalog with a liquid and an aqueous reactant is looked
\* up, after a reaction that loses gas moles was found to shift forward under pressure
C27_Witness ==
    /\ Selected
    /\ NoGasSpecies(query.ret[1])
    /\ query.ret[1].gasChange = 0
    /\ last.op = "predictPressureEffect"
    /\ last.gasChange < 0
    /\ last.gasChange = StoichiometricGasChange(getReactionByName(last.name)[1])
    /\ last.ret = "forward"

====
